---- MODULE Spec2Model ----
(***************************************************************************)
(* Sign playback scheduler (hook useSignPlayback) and the part of the      *)
(* skeleton renderer (AvatarController) it drives.                         *)
(*                                                                         *)
(* A session is one accepted call of playSequence(plan).  It is identified *)
(* by the value of playbackIdRef.current it captured (currentPlaybackId).  *)
(* JavaScript runs one task at a time: a step of the model is one task,    *)
(* i.e. the code a session runs from the return of one timer or fetch to   *)
(* the next timer or fetch it waits for.  An await of a promise that is    *)
(* already settled (an async function that returned without waiting) is    *)
(* continued in a microtask of the same task, so it is part of the step.   *)
(***************************************************************************)
EXTENDS Integers, Sequences, FiniteSets, TLC

\* ------------------------------------------------------------ bounds
\* playbackIdRef.current is capped: no call that would raise it further.
MaxToken == 2
\* longest plan handed to playSequence in Spec
MaxPlanLen == 2
\* number of distinct sign names in Spec
NumNames == 2
\* longest landmark frame list a fetch returns
MaxFrames == 2
\* longest frame list in FairSpec
FairMaxFrames == 1
\* longest plan and number of names in CollapseSpec
MaxCollapseLen == 4
NumCollapseNames == 3

\* ------------------------------------------------------------ constants
SIGN_DURATION == 3000
maxConsecutiveBlanks == 10
earlyCheckFrames == 5

Undefined == "undefined"
Null == "null"

Min(a, b) == IF a < b THEN a ELSE b

\* ------------------------------------------------------------ plan items
SignNameList == <<"I", "WANT", "APPLE", "HELLO", "THANKS", "PLEASE">>

\* PlanItem: type, token, sign_name?, assets?.gif
SignItem(name, gif) ==
    [type |-> "sign", token |-> name, sign_name |-> name, gif |-> gif]
\* a sign item the translation gave no sign_name
UnnamedSign == [type |-> "sign", token |-> "?", sign_name |-> Undefined, gif |-> Undefined]
TextItem == [type |-> "text", token |-> "word", sign_name |-> Undefined, gif |-> Undefined]

\* the items plans are made of: n named signs (every other one comes with a
\* reference clip), a sign without sign_name and a text item
ItemsUpTo(n) ==
    {SignItem(SignNameList[j], IF j % 2 = 1 THEN "gif" ELSE Undefined) :
        j \in 1..Min(n, Len(SignNameList))}
        \cup {UnnamedSign, TextItem}

SeqsUpTo(S, n) == UNION {[1..m -> S] : m \in 0..n}

Plans == SeqsUpTo(ItemsUpTo(NumNames), MaxPlanLen)
\* FairSpec leaves out the sign without sign_name, which is paused on like text
FairPlans == SeqsUpTo(ItemsUpTo(NumNames) \ {UnnamedSign}, MaxPlanLen)
CollapsePlans == SeqsUpTo(ItemsUpTo(NumCollapseNames), MaxCollapseLen)

IsSign(item) == item.type = "sign"
\* item.type === "sign" && item.sign_name
IsPlayable(item) == item.type = "sign" /\ item.sign_name # Undefined

\* The collapsing loop of playSequence.  lastSignName is null at the start
\* and after a non-sign item; a missing sign_name (undefined) differs from
\* null and from every name under !==, so such an item is always pushed,
\* and it leaves null behind (sign_name ?? null).
\* a collapsing loop in which a dropped repeat resets lastSignName
CollapseFromBug(plan, lastSignName, uniquePlan) ==
    LET F[j \in 0..Len(plan)] ==
            IF j = 0 THEN [last |-> lastSignName, out |-> uniquePlan]
            ELSE LET item == plan[j] IN
                 IF item.type = "sign" /\ item.sign_name # F[j - 1].last
                 THEN [last |-> IF item.sign_name = Undefined THEN Null ELSE item.sign_name,
                       out |-> Append(F[j - 1].out, item)]
                 ELSE IF item.type # "sign"
                 THEN [last |-> Null, out |-> Append(F[j - 1].out, item)]
                 ELSE [last |-> Null, out |-> F[j - 1].out]
    IN F[Len(plan)].out
RECURSIVE CollapseFrom(_, _, _)
CollapseFrom(plan, lastSignName, uniquePlan) ==
    IF plan = <<>> THEN uniquePlan
    ELSE LET item == Head(plan) IN
         IF item.type = "sign" /\ item.sign_name # lastSignName
         THEN CollapseFrom(Tail(plan),
                           IF item.sign_name = Undefined THEN Null ELSE item.sign_name,
                           Append(uniquePlan, item))
         ELSE IF item.type # "sign"
         THEN CollapseFrom(Tail(plan), Null, Append(uniquePlan, item))
         ELSE CollapseFrom(Tail(plan), lastSignName, uniquePlan)

\* a collapse that drops every sign seen before, adjacent or not
CollapseBug(plan) ==
    LET seenBefore(j) == \E h \in 1..(j - 1) :
            plan[h].type = "sign" /\ plan[h].sign_name = plan[j].sign_name
        F[j \in 0..Len(plan)] ==
            IF j = 0 THEN <<>>
            ELSE IF plan[j].type = "sign" /\ seenBefore(j) THEN F[j - 1]
                 ELSE Append(F[j - 1], plan[j])
    IN F[Len(plan)]
Collapse(plan) == CollapseFrom(plan, Null, <<>>)

\* uniquePlan.filter(item => item.type === "sign" && item.sign_name), as indices
SignIndices(uniquePlan) == {j \in 1..Len(uniquePlan) : IsPlayable(uniquePlan[j])}
\* single sign mode only for a plan that is one sign and nothing else
IsSingleSignBug(uniquePlan) ==
    Len(uniquePlan) = 1 /\ IsPlayable(uniquePlan[1])
IsSingleSign(uniquePlan) == Cardinality(SignIndices(uniquePlan)) = 1
\* signs[0]
FirstSignIndex(uniquePlan) ==
    CHOOSE j \in SignIndices(uniquePlan) : \A m \in SignIndices(uniquePlan) : j <= m

\* ------------------------------------------------------------ frames
\* A landmark list is kept as what the renderer's validity test makes of
\* it: absent (undefined), "blank" (wrong length, or every point the
\* (0,0,0) sentinel) or "valid" (right length, some point present).
PoseFrameOf(p) == [pose |-> p, left_hand |-> Undefined, right_hand |-> Undefined]
HandFrameOf(l, r) == [pose |-> Undefined, left_hand |-> l, right_hand |-> r]
\* element of the legacy hand_frames list
LegacyHandFrameOf(l, r) == [left |-> l, right |-> r]

PoseFrames == {PoseFrameOf("valid"), PoseFrameOf("blank")}
LegacyHandFrames == {LegacyHandFrameOf("valid", Undefined)}

NonEmptySeqsUpTo(S, n) == UNION {[1..m -> S] : m \in 1..n}

\* What fetchLandmarks resolves to: null (response not ok, or the request
\* threw), or the LandmarksData body with its three optional lists (here a
\* body carries at most one of them).
NullData == [isNull |-> TRUE, pose_frames |-> <<>>, hand_frames |-> <<>>, frames |-> <<>>]
LandmarksDataUpTo(n) ==
    LET P == NonEmptySeqsUpTo(PoseFrames, n)
        H == NonEmptySeqsUpTo(LegacyHandFrames, n)
        Body(a, b, c) == [isNull |-> FALSE, pose_frames |-> a, hand_frames |-> b, frames |-> c]
    IN {Body(<<>>, <<>>, <<>>)}
         \cup {Body(a, <<>>, <<>>) : a \in P}
         \cup {Body(<<>>, b, <<>>) : b \in H}
         \cup {Body(<<>>, <<>>, c) : c \in P}
FetchResults == {NullData} \cup LandmarksDataUpTo(MaxFrames)
FairFetchResults == {NullData} \cup LandmarksDataUpTo(FairMaxFrames)

\* hand_frames.map(f => ({left_hand: f.left, right_hand: f.right}))
ConvertHandFrame(f) == [pose |-> Undefined, left_hand |-> f.left, right_hand |-> f.right]

\* an extraction that prefers the generic list
ExtractFramesBug(data) ==
    IF data.isNull THEN <<>>
    ELSE IF Len(data.frames) > 0 THEN data.frames
    ELSE IF Len(data.pose_frames) > 0 THEN data.pose_frames
    ELSE IF Len(data.hand_frames) > 0
         THEN [j \in 1..Len(data.hand_frames) |-> ConvertHandFrame(data.hand_frames[j])]
    ELSE <<>>
\* "Get frames from various possible formats"; <<>> stands for frames = null
ExtractFrames(data) ==
    IF data.isNull THEN <<>>
    ELSE IF Len(data.pose_frames) > 0 THEN data.pose_frames
    ELSE IF Len(data.hand_frames) > 0
         THEN [j \in 1..Len(data.hand_frames) |-> ConvertHandFrame(data.hand_frames[j])]
    ELSE IF Len(data.frames) > 0 THEN data.frames
    ELSE <<>>

\* ------------------------------------------------------------ renderer
\* updateFrame's return value
UpdateFrameValid(frame) ==
    IF frame.left_hand # Undefined \/ frame.right_hand # Undefined
    THEN frame.left_hand = "valid" \/ frame.right_hand = "valid"
    ELSE frame.pose = "valid"

\* what updateFrame leaves visible: the pose rig, the hand rigs, or nothing
UpdateFrameRig(frame) ==
    IF frame.left_hand # Undefined \/ frame.right_hand # Undefined
    THEN IF frame.left_hand = "valid" \/ frame.right_hand = "valid" THEN "hands" ELSE "hidden"
    ELSE IF frame.pose = "valid" THEN "pose" ELSE "hidden"

checkFrameHasData(frame) ==
    IF frame.left_hand # Undefined \/ frame.right_hand # Undefined
    THEN frame.left_hand = "valid" \/ frame.right_hand = "valid"
    ELSE frame.pose = "valid"

\* earlyBlankCount === Math.min(earlyCheckFrames, frames.length)
EarlyBlank(frames) ==
    LET n == Min(earlyCheckFrames, Len(frames)) IN
    Cardinality({j \in 1..n : ~checkFrameHasData(frames[j])}) = n

\* ------------------------------------------------------------ state
VARIABLES
    playbackId,     \* playbackIdRef.current
    isPlaying,      \* React state isPlaying (latest value set)
    currentToken,   \* React state currentToken
    currentGifUrl,  \* React state currentGifUrl
    closures,       \* the values of isPlaying captured by the playSequence
                    \* callbacks created so far (one per render that changed it)
    avatarRef,      \* avatarRef.current is set (TRUE) or null (FALSE)
    rig,            \* what the skeleton shows: "hidden", "pose" or "hands"
    sessions        \* sessions[t]: the call of playSequence that captured t

\* the clock and what is pending on it; they move only in the timed
\* specifications and stay as Init leaves them elsewhere
VARIABLES
    now,            \* Date.now(), in ms since the hook was mounted
    startTime,      \* startTime[t]: startTime of session t's playSingleSign
    due,            \* due[t]: when the fetch or timer session t awaits ends
    fps,            \* fps[t]: the fps session t passed to avatar.playSequence,
                    \* times SIGN_DURATION / 1000 to stay in the integers
    maxLatency      \* maxLatency[t]: the longest fetch of session t so far

timeVars == <<now, startTime, due, fps, maxLatency>>

\* the meshes of the renderer: the indices of those with visible = true;
\* they move only in RigSpec
VARIABLES
    joints, bones,
    leftHandJoints, rightHandJoints,
    leftHandBones, rightHandBones,
    lastFrame,      \* <<frame>> of the last updateFrame call, <<>> before it
    lastReturn,     \* what that call returned
    anim,           \* the locals of the renderer's playSequence call
    response,       \* <<body>> once a landmark response has arrived (WireSpec)
    raf             \* the redraw loop: the browser's pending animation frame
                    \* requests and the controller's animationFrameId

rigVars == <<joints, bones, leftHandJoints, rightHandJoints,
             leftHandBones, rightHandBones, lastFrame, lastReturn, anim,
             response, raf>>

\* The redraw loop.  pending holds the ids of the requests made with
\* requestAnimationFrame that the browser has neither run nor cancelled,
\* nextId the id the next request gets, animationFrameId the field of the
\* controller (NoRequest for null); disposed tells that dispose() was called.
\* One render is made per request, so animationFrameId counts the renders.
NoRequest == 0
NewController ==
    [pending |-> {}, animationFrameId |-> NoRequest, nextId |-> 1, disposed |-> FALSE]

\* an animate that keeps the id of its first request only
animateBug(st) ==
    [st EXCEPT !.pending = @ \cup {st.nextId},
               !.animationFrameId = IF @ = NoRequest THEN st.nextId ELSE @,
               !.nextId = @ + 1]
\* animate: this.animationFrameId = requestAnimationFrame(this.animate),
\* then renderer.render(scene, camera)
animate(st) ==
    [st EXCEPT !.pending = @ \cup {st.nextId},
               !.animationFrameId = st.nextId,
               !.nextId = @ + 1]

\* dispose(): cancelAnimationFrame(this.animationFrameId) unless it is null
dispose(st) ==
    [st EXCEPT !.pending = IF st.animationFrameId # NoRequest
                           THEN @ \ {st.animationFrameId} ELSE @,
               !.disposed = TRUE]

\* avatar.playSequence(frames, fps): pc is "idle" before the call, "sleep" in
\* the frame loop's setTimeout, "returned" or "threw" after it; k is the
\* index of the frame shown last; calls counts the updateFrame calls
\* and sleeps the setTimeout waits of the call.
NoAnim ==
    [pc |-> "idle", frames |-> <<>>, k |-> 0, hasValidFrames |-> FALSE,
     consecutiveBlankFrames |-> 0, calls |-> 0, sleeps |-> 0, result |-> FALSE]

vars == <<playbackId, isPlaying, currentToken, currentGifUrl, closures,
          avatarRef, rig, sessions, timeVars, rigVars>>

Tokens == 1..MaxToken

\* locals of one call of playSequence and of the playSingleSign and
\* avatar.playSequence calls inside it; pc is where it is suspended
NoSession ==
    [pc |-> "none", mode |-> "none", plan |-> <<>>, uniquePlan |-> <<>>, i |-> 0,
     frames |-> <<>>, k |-> 0, hasValidFrames |-> FALSE, consecutiveBlankFrames |-> 0]
\* after Cleanup the call has returned; only its mode is remembered
DoneSession(mode) == [NoSession EXCEPT !.pc = "done", !.mode = mode]

\* The part of the state a session's code reads and writes while it runs:
\* s its locals, sid its currentPlaybackId, cur playbackIdRef.current,
\* avatar avatarRef.current, and the shared state it can set.  wrote tells
\* whether the task has called updateFrame, result what avatar.playSequence
\* returned in the task and ret what playSingleSign returned in it ("none"
\* when they did not return in this task).
World(sid) ==
    [s |-> sessions[sid], sid |-> sid, cur |-> playbackId, avatar |-> avatarRef,
     playing |-> isPlaying, tok |-> currentToken, gif |-> currentGifUrl,
     rig |-> rig, wrote |-> FALSE, result |-> "none", ret |-> "none"]

Live(w) == w.sid = w.cur

\* the URL built from item.assets.gif: one per sign
GifUrl(item) == item.sign_name

\* a Cleanup that forgets setIsPlaying(false)
CleanupBug(w) ==
    [w EXCEPT !.s = DoneSession(w.s.mode), !.tok = Undefined, !.gif = Undefined]
\* "Cleanup" at the end of playSequence
Cleanup(w) ==
    [w EXCEPT !.s = DoneSession(w.s.mode), !.tok = Undefined, !.gif = Undefined, !.playing = FALSE]

\* a playSingleSign that shows the gif only after the fetch
BeginSignBug(w) ==
    [w EXCEPT !.tok = w.s.uniquePlan[w.s.i].token, !.s.pc = "fetch"]
\* playSingleSign from its two guards (both passed) to the await of the fetch
BeginSign(w) ==
    LET item == w.s.uniquePlan[w.s.i] IN
    [w EXCEPT !.tok = item.token,
              !.gif = IF item.gif # Undefined THEN GifUrl(item) ELSE @,
              !.s.pc = "fetch"]

\* playSequence after "await playSingleSign(...)" has returned
AfterSign(w) ==
    IF w.s.mode = "loop"
    THEN \* if (id === ref) await 300ms; else the while condition fails
         IF Live(w) THEN [w EXCEPT !.s.pc = "pause"] ELSE Cleanup(w)
    ELSE \* if (i < uniquePlan.length - 1) await 300ms; else the for loop ends
         IF w.s.i < Len(w.s.uniquePlan) THEN [w EXCEPT !.s.pc = "pause"] ELSE Cleanup(w)

\* a while loop that does not test the id
LoopIterateBug(w) == BeginSign(w)
\* top of the while loop of single sign mode
LoopIterate(w) ==
    IF Live(w) THEN BeginSign(w) ELSE Cleanup(w)

\* a for loop that steps by two
NextSeqItemBug(w) ==
    LET j == w.s.i + 2
        wj == [w EXCEPT !.s.i = j] IN
    IF j > Len(w.s.uniquePlan) THEN Cleanup(w)
    ELSE IF IsPlayable(w.s.uniquePlan[j])
         THEN IF Live(w) THEN BeginSign(wj) ELSE AfterSign(wj)
         ELSE [wj EXCEPT !.s.pc = "text"]
\* a for loop that blanks the token while it skips a non-sign item
NextSeqItemClearsToken(w) ==
    LET j == w.s.i + 1
        wj == [w EXCEPT !.s.i = j] IN
    IF j > Len(w.s.uniquePlan) THEN Cleanup(w)
    ELSE IF IsPlayable(w.s.uniquePlan[j])
         THEN IF Live(w) THEN BeginSign(wj) ELSE AfterSign(wj)
         ELSE [wj EXCEPT !.s.pc = "text", !.tok = Undefined]
\* the for loop of sequential mode: i++, then its test and body
NextSeqItem(w) ==
    LET j == w.s.i + 1
        wj == [w EXCEPT !.s.i = j] IN
    IF j > Len(w.s.uniquePlan) THEN Cleanup(w)
    ELSE IF IsPlayable(w.s.uniquePlan[j])
         THEN \* playSingleSign returns false at once when the id is stale
              IF Live(w) THEN BeginSign(wj) ELSE AfterSign(wj)
         ELSE [wj EXCEPT !.s.pc = "text"]

\* a single sign mode that plays its sign once
AfterPauseBug(w) ==
    IF w.s.mode = "loop" THEN Cleanup(w) ELSE NextSeqItem(w)
\* after either pause: the next loop iteration
AfterPause(w) ==
    IF w.s.mode = "loop" THEN LoopIterate(w) ELSE NextSeqItem(w)

\* a playSingleSign that leaves the gif up when it returns
FinishSignBug(w) == AfterSign(w)
\* playSingleSign: setCurrentGifUrl(undefined); return true
FinishSign(w) ==
    AfterSign([w EXCEPT !.gif = Undefined, !.ret = "true"])

\* a playSingleSign that returns as soon as the animation is over
DwellStartBug(w, elapsed) ==
    FinishSign([w EXCEPT !.s.frames = <<>>, !.s.k = 0, !.s.hasValidFrames = FALSE,
                         !.s.consecutiveBlankFrames = 0])
\* "Ensure we wait the full 3 seconds"; elapsed = Date.now() - startTime
DwellStart(w, elapsed) ==
    LET w0 == [w EXCEPT !.s.frames = <<>>, !.s.k = 0, !.s.hasValidFrames = FALSE,
                        !.s.consecutiveBlankFrames = 0] IN
    IF SIGN_DURATION - elapsed > 0 THEN [w0 EXCEPT !.s.pc = "dwell"] ELSE FinishSign(w0)

\* avatar.playSequence has returned value: on to the dwell
PlaySequenceReturned(w, value, elapsed) ==
    DwellStart([w EXCEPT !.result = IF value THEN "true" ELSE "false"], elapsed)

\* this.updateFrame(frame), called for session w.sid
CallUpdateFrame(w, frame) ==
    [w EXCEPT !.rig = UpdateFrameRig(frame), !.wrote = TRUE]

\* one iteration of "for (const frame of frames)" up to its sleep or break
AnimStep(w, j, elapsed) ==
    LET frame == w.s.frames[j]
        w1 == CallUpdateFrame(w, frame) IN
    IF UpdateFrameValid(frame)
    THEN [w1 EXCEPT !.s.hasValidFrames = TRUE, !.s.consecutiveBlankFrames = 0,
                    !.s.k = j, !.s.pc = "anim"]
    ELSE IF w.s.hasValidFrames /\ w.s.consecutiveBlankFrames + 1 >= maxConsecutiveBlanks
         THEN PlaySequenceReturned(w1, w.s.hasValidFrames, elapsed)
         ELSE [w1 EXCEPT !.s.consecutiveBlankFrames = @ + 1, !.s.k = j, !.s.pc = "anim"]

\* avatar.playSequence(frames, fps) from its call to its first sleep or return
AvatarPlaySequence(w, elapsed) ==
    IF Len(w.s.frames) = 0 THEN PlaySequenceReturned(w, FALSE, elapsed)
    ELSE IF EarlyBlank(w.s.frames)
         THEN PlaySequenceReturned(CallUpdateFrame(w, w.s.frames[1]), FALSE, elapsed)
         ELSE AnimStep(w, 1, elapsed)

\* a playSingleSign that calls playSequence without looking at the ref
TryAnimateBug(w, elapsed) ==
    IF w.s.frames # <<>> THEN AvatarPlaySequence(w, elapsed)
    ELSE DwellStart(w, elapsed)
\* if (frames && avatarRef.current) { await playSequence } ; then the dwell
TryAnimate(w, elapsed) ==
    IF w.s.frames # <<>> /\ w.avatar THEN AvatarPlaySequence(w, elapsed)
    ELSE DwellStart(w, elapsed)

\* a playSingleSign that gives the whole sequence up when it got no frames
AfterFetchBug(w, data, elapsed) ==
    LET w1 == [w EXCEPT !.s.frames = ExtractFrames(data)] IN
    IF w1.s.frames = <<>> THEN Cleanup(w)
    ELSE IF ~w.avatar THEN [w1 EXCEPT !.s.pc = "avatarWait"]
         ELSE TryAnimate(w1, elapsed)
\* playSingleSign after "await fetchLandmarks" has returned data
AfterFetch(w, data, elapsed) ==
    LET w1 == [w EXCEPT !.s.frames = ExtractFrames(data)] IN
    IF w1.s.frames # <<>> /\ ~w.avatar
    THEN [w1 EXCEPT !.s.pc = "avatarWait"]
    ELSE TryAnimate(w1, elapsed)

\* the frame loop after its sleep: next frame, or the end of the list
AfterAnimSleep(w, elapsed) ==
    IF w.s.k + 1 > Len(w.s.frames) THEN PlaySequenceReturned(w, w.s.hasValidFrames, elapsed)
    ELSE AnimStep(w, w.s.k + 1, elapsed)

\* ------------------------------------------------------------ actions
Init ==
    /\ playbackId = 0
    /\ isPlaying = FALSE
    /\ currentToken = Undefined
    /\ currentGifUrl = Undefined
    /\ closures = {FALSE}
    /\ avatarRef = FALSE
    /\ rig = "hidden"
    /\ sessions = [t \in Tokens |-> NoSession]
    /\ now = 0
    /\ startTime = [t \in Tokens |-> 0]
    /\ due = [t \in Tokens |-> 0]
    /\ fps = [t \in Tokens |-> 0]
    /\ maxLatency = [t \in Tokens |-> 0]
    /\ joints = {} /\ bones = {}
    /\ leftHandJoints = {} /\ rightHandJoints = {}
    /\ leftHandBones = {} /\ rightHandBones = {}
    /\ lastFrame = <<>> /\ lastReturn = FALSE
    /\ anim = NoAnim
    /\ response = <<>>
    /\ raf = animate(NewController)

\* the session's task ends: its locals and the shared state it set are stored
Store(w) ==
    /\ sessions' = [sessions EXCEPT ![w.sid] = w.s]
    /\ isPlaying' = w.playing
    /\ currentToken' = w.tok
    /\ currentGifUrl' = w.gif
    /\ rig' = w.rig
    /\ UNCHANGED <<playbackId, closures, avatarRef>>

Apply(w) == Store(w) /\ UNCHANGED <<timeVars, rigVars>>

\* Date.now() - startTime, as far as the dwell test tells values apart
ElapsedSet == {0, SIGN_DURATION}

\* playbackIdRef.current++; const currentPlaybackId = playbackIdRef.current
NewPlaybackIdBug == playbackId
NewPlaybackId == playbackId + 1

\* playSequence(plan) behind its isPlaying guard, up to its first await:
\* the world it leaves, for the new id
StartWorld(plan) ==
    LET id == NewPlaybackId
        uniquePlan == Collapse(plan)
        single == IsSingleSign(uniquePlan)
        s0 == [NoSession EXCEPT !.mode = IF single THEN "loop" ELSE "seq",
                                !.plan = plan,
                                !.uniquePlan = uniquePlan,
                                !.i = IF single THEN FirstSignIndex(uniquePlan) ELSE 0]
        w0 == [s |-> s0, sid |-> id, cur |-> id, avatar |-> avatarRef,
               playing |-> TRUE, tok |-> currentToken, gif |-> currentGifUrl,
               rig |-> rig, wrote |-> FALSE, result |-> "none", ret |-> "none"]
    IN IF single THEN LoopIterate(w0) ELSE NextSeqItem(w0)

\* A call of playSequence(plan) through a callback that captured isPlaying
\* as seen: what the call has done when it returns to its caller.  accepted
\* tells whether it passed "if (isPlaying) return".
PlaySequenceResult(plan, seen) ==
    IF seen
    THEN [accepted |-> FALSE, playbackId |-> playbackId, sessions |-> sessions,
          isPlaying |-> isPlaying, currentToken |-> currentToken,
          currentGifUrl |-> currentGifUrl, rig |-> rig]
    ELSE LET w == StartWorld(plan) IN
         [accepted |-> TRUE, playbackId |-> w.sid,
          sessions |-> [sessions EXCEPT ![w.sid] = w.s],
          isPlaying |-> w.playing, currentToken |-> w.tok,
          currentGifUrl |-> w.gif, rig |-> w.rig]

\* the call has returned to its caller: what it did is stored
StoreResult(r) ==
    /\ playbackId' = r.playbackId
    /\ sessions' = r.sessions
    /\ isPlaying' = r.isPlaying
    /\ currentToken' = r.currentToken
    /\ currentGifUrl' = r.currentGifUrl
    /\ rig' = r.rig
    /\ UNCHANGED <<closures, avatarRef>>

\* the call, through the callback that captured seen
playSequenceVia(plan, seen) ==
    /\ seen \/ playbackId < MaxToken
    /\ StoreResult(PlaySequenceResult(plan, seen))
    /\ UNCHANGED <<timeVars, rigVars>>

\* the caller holds any of the callbacks created so far
playSequence(plan) == \E seen \in closures : playSequenceVia(plan, seen)

\* a stopPlayback that leaves the reference clip on screen
stopPlaybackBug ==
    /\ playbackId < MaxToken
    /\ playbackId' = playbackId + 1
    /\ currentToken' = Undefined
    /\ isPlaying' = FALSE
    /\ UNCHANGED <<currentGifUrl, closures, avatarRef, rig, sessions,
                   timeVars, rigVars>>
\* a stopPlayback that also clears the skeleton (updateFrame(null))
stopPlaybackHidesRig ==
    /\ playbackId < MaxToken
    /\ playbackId' = playbackId + 1
    /\ currentToken' = Undefined
    /\ currentGifUrl' = Undefined
    /\ isPlaying' = FALSE
    /\ rig' = "hidden"
    /\ UNCHANGED <<closures, avatarRef, sessions, timeVars, rigVars>>
\* stopPlayback: playbackIdRef.current++ and the three setters
stopPlayback ==
    /\ playbackId < MaxToken
    /\ playbackId' = playbackId + 1
    /\ currentToken' = Undefined
    /\ currentGifUrl' = Undefined
    /\ isPlaying' = FALSE
    /\ UNCHANGED <<closures, avatarRef, rig, sessions, timeVars, rigVars>>

\* a render after isPlaying changed: useCallback makes a new playSequence
\* that captures the new value; callers may still hold the older ones
Render ==
    /\ isPlaying \notin closures
    /\ closures' = closures \cup {isPlaying}
    /\ UNCHANGED <<playbackId, isPlaying, currentToken, currentGifUrl,
                   avatarRef, rig, sessions, timeVars, rigVars>>

\* the effect that copies the avatar prop into avatarRef once it is ready
SetAvatar ==
    /\ ~avatarRef
    /\ avatarRef' = TRUE
    /\ UNCHANGED <<playbackId, isPlaying, currentToken, currentGifUrl,
                   closures, rig, sessions, timeVars, rigVars>>

\* avatar.playSequence throws in its early check (checkFrameHasData reads
\* frame.left_hand of a frame that is null), before any updateFrame:
\* "catch (e) { console.error(...) }", then the dwell
RendererRaised(w, elapsed) == DwellStart(w, elapsed)

\* the worlds the next task of session sid leaves when its renderer call throws
RaiseOutcomes(sid, results) ==
    LET w == World(sid) IN
    CASE w.s.pc = "fetch" /\ w.avatar ->
            {RendererRaised(w, elapsed) :
                data \in {d \in results : ExtractFrames(d) # <<>>}, elapsed \in ElapsedSet}
      [] w.s.pc = "avatarWait" /\ w.avatar ->
            {RendererRaised(w, elapsed) : elapsed \in ElapsedSet}
      [] OTHER -> {}

\* The worlds the next task of session sid can leave, by where it waits.
FetchOutcomes(sid, results) ==
    {AfterFetch(World(sid), data, elapsed) : data \in results, elapsed \in ElapsedSet}
        \cup RaiseOutcomes(sid, results)
\* the wait loop for the avatar ends: the ref is set, or maxWait has passed
AvatarWaitOutcomes(sid) ==
    {TryAnimate(World(sid), elapsed) : elapsed \in ElapsedSet}
        \cup RaiseOutcomes(sid, FetchResults)
AnimOutcomes(sid) == {AfterAnimSleep(World(sid), elapsed) : elapsed \in ElapsedSet}
DwellOutcomes(sid) == {FinishSign(World(sid))}
PauseOutcomes(sid) == {AfterPause(World(sid))}
TextPauseOutcomes(sid) == {NextSeqItem(World(sid))}

TaskOutcomes(sid) ==
    CASE sessions[sid].pc = "fetch" -> FetchOutcomes(sid, FetchResults)
      [] sessions[sid].pc = "avatarWait" -> AvatarWaitOutcomes(sid)
      [] sessions[sid].pc = "anim" -> AnimOutcomes(sid)
      [] sessions[sid].pc = "dwell" -> DwellOutcomes(sid)
      [] sessions[sid].pc = "pause" -> PauseOutcomes(sid)
      [] sessions[sid].pc = "text" -> TextPauseOutcomes(sid)
      [] OTHER -> {}

FetchReturnIn(sid, results) ==
    /\ sessions[sid].pc = "fetch"
    /\ \E w \in FetchOutcomes(sid, results) : Apply(w)

FetchReturn(sid) == FetchReturnIn(sid, FetchResults)

AvatarWaitEnd(sid) ==
    /\ sessions[sid].pc = "avatarWait"
    /\ \E w \in AvatarWaitOutcomes(sid) : Apply(w)

AnimWake(sid) ==
    /\ sessions[sid].pc = "anim"
    /\ \E w \in AnimOutcomes(sid) : Apply(w)

DwellEnd(sid) ==
    /\ sessions[sid].pc = "dwell"
    /\ \E w \in DwellOutcomes(sid) : Apply(w)

PauseEnd(sid) ==
    /\ sessions[sid].pc = "pause"
    /\ \E w \in PauseOutcomes(sid) : Apply(w)

TextPauseEnd(sid) ==
    /\ sessions[sid].pc = "text"
    /\ \E w \in TextPauseOutcomes(sid) : Apply(w)

\* every task of session sid
SessionStep(sid) ==
    \/ FetchReturn(sid)
    \/ AvatarWaitEnd(sid)
    \/ AnimWake(sid)
    \/ DwellEnd(sid)
    \/ PauseEnd(sid)
    \/ TextPauseEnd(sid)

Next ==
    \/ \E plan \in Plans : playSequence(plan)
    \/ stopPlayback
    \/ Render
    \/ SetAvatar
    \/ \E sid \in Tokens : FetchReturn(sid)
    \/ \E sid \in Tokens : AvatarWaitEnd(sid)
    \/ \E sid \in Tokens : AnimWake(sid)
    \/ \E sid \in Tokens : DwellEnd(sid)
    \/ \E sid \in Tokens : PauseEnd(sid)
    \/ \E sid \in Tokens : TextPauseEnd(sid)

Spec == Init /\ [][Next]_vars

\* The same program with shorter frame lists and fewer plans.  A call of
\* playSequence that returns at its isPlaying guard changes nothing, so
\* those calls, and the renders that make them possible, are left out.
FairFetchReturn(sid) == FetchReturnIn(sid, FairFetchResults)

FairSessionStep(sid) ==
    \/ FairFetchReturn(sid)
    \/ AvatarWaitEnd(sid)
    \/ AnimWake(sid)
    \/ DwellEnd(sid)
    \/ PauseEnd(sid)
    \/ TextPauseEnd(sid)

FairNext ==
    \/ \E plan \in FairPlans : playSequenceVia(plan, FALSE)
    \/ stopPlayback
    \/ SetAvatar
    \/ \E sid \in Tokens : FairFetchReturn(sid)
    \/ \E sid \in Tokens : AvatarWaitEnd(sid)
    \/ \E sid \in Tokens : AnimWake(sid)
    \/ \E sid \in Tokens : DwellEnd(sid)
    \/ \E sid \in Tokens : PauseEnd(sid)
    \/ \E sid \in Tokens : TextPauseEnd(sid)

\* Some pending timer fires or some pending fetch settles.  A session whose
\* id is stale ends after finitely many of its tasks, so this lets every
\* session run as long as it has a task pending.
Fairness == WF_vars(\E sid \in Tokens : FairSessionStep(sid))
FairSpec == Init /\ [][FairNext]_vars /\ Fairness

\* Every timer fires, but a fetch may stay pending for ever: fetch() has no
\* timeout and fetchLandmarks sets none.
TimerStep(sid) ==
    \/ AvatarWaitEnd(sid)
    \/ AnimWake(sid)
    \/ DwellEnd(sid)
    \/ PauseEnd(sid)
    \/ TextPauseEnd(sid)
TimerFairness == WF_vars(\E sid \in Tokens : TimerStep(sid))
TimerFairSpec == Init /\ [][FairNext]_vars /\ TimerFairness

\* The same program over plans of three items, where a non-sign item can
\* follow a played sign in sequential mode.
TextPlans == [1..3 -> {SignItem("I", "gif"), SignItem("WANT", Undefined), TextItem}]
TextNext ==
    \/ \E plan \in TextPlans : playSequenceVia(plan, FALSE)
    \/ stopPlayback
    \/ SetAvatar
    \/ \E sid \in Tokens : FairFetchReturn(sid)
    \/ \E sid \in Tokens : AvatarWaitEnd(sid)
    \/ \E sid \in Tokens : AnimWake(sid)
    \/ \E sid \in Tokens : DwellEnd(sid)
    \/ \E sid \in Tokens : PauseEnd(sid)
    \/ \E sid \in Tokens : TextPauseEnd(sid)
TextSpec == Init /\ [][TextNext]_vars

\* the first call of playSequence, over longer plans
CollapseNext == \E plan \in CollapsePlans : playbackId = 0 /\ playSequence(plan)
CollapseSpec == Init /\ [][CollapseNext]_vars

\* ------------------------------------------------------------ claims
\* the session that holds the current id, if a call of playSequence made it
Cur == sessions[IF playbackId = 0 THEN 1 ELSE playbackId]
CurExists == playbackId > 0 /\ Cur.pc # "none"

\* a session that is suspended at an await
Running(sid) == sessions[sid].pc \notin {"none", "done"}

\* C1: a task of a session that a later playSequence has superseded leaves
\* isPlaying, currentToken and currentGifUrl as the later session set them.
SupersededLeavesStateAlone ==
    [][\A sid \in Tokens :
          (sid < playbackId /\ CurExists /\ SessionStep(sid))
              => UNCHANGED <<isPlaying, currentToken, currentGifUrl>>]_vars

\* C2: whatever task runs next, it calls updateFrame only if it belongs to
\* the session whose id is playbackIdRef.current.
UpdateFrameOnlyByCurrent ==
    \A sid \in Tokens : \A w \in TaskOutcomes(sid) : w.wrote => sid = playbackId

\* C3: every call of playSequence with a non-empty plan, through whichever
\* callback the caller holds and whether or not a session is running,
\* increments playbackIdRef.current and starts a session that plays plan.
LatestStartWins ==
    \A plan \in Plans \ {<<>>} : \A seen \in closures :
        playbackId < MaxToken =>
            LET r == PlaySequenceResult(plan, seen) IN
            /\ r.playbackId = playbackId + 1
            /\ r.sessions[r.playbackId].plan = plan
            /\ r.isPlaying

\* C4: the first task a session runs after it stopped being the current one
\* ends it: it suspends at no further fetch, sleep, pause or frame.
SupersededHalts ==
    [][\A sid \in Tokens :
          (sid # playbackId /\ SessionStep(sid)) => sessions'[sid].pc = "done"]_vars

\* C5: a step that moves playbackIdRef.current to an id no session holds (a
\* stopPlayback) adds exactly one to it, leaves isPlaying false and
\* currentToken and currentGifUrl undefined, and touches no session.
StopIsSynchronous ==
    [][(playbackId' # playbackId /\ sessions'[playbackId'].pc = "none")
          => /\ playbackId' = playbackId + 1
             /\ isPlaying' = FALSE
             /\ currentToken' = Undefined
             /\ currentGifUrl' = Undefined
             /\ sessions' = sessions]_vars
StopIsSynchronousWitness ==
    /\ playbackId = 2 /\ sessions[2].pc = "none"
    /\ sessions[1].pc = "dwell"
    /\ ~isPlaying /\ currentToken = Undefined /\ currentGifUrl = Undefined

\* C6: while the current session is in single sign mode and isPlaying is
\* true, a step that is neither stopPlayback nor an accepted playSequence
\* leaves isPlaying true.
SingleSignStaysPlaying ==
    [][(CurExists /\ Cur.mode = "loop" /\ Cur.pc # "done" /\ isPlaying
           /\ playbackId' = playbackId) => isPlaying']_vars

\* the items of seq at the indices in keep, in order
RECURSIVE Pick(_, _, _)
Pick(seq, keep, j) ==
    IF j > Len(seq) THEN <<>>
    ELSE IF j \in keep THEN <<seq[j]>> \o Pick(seq, keep, j + 1)
         ELSE Pick(seq, keep, j + 1)

\* a sign right after a sign that has the same sign_name
RepeatsPrevious(seq, j) ==
    /\ j > 1
    /\ seq[j].type = "sign" /\ seq[j - 1].type = "sign"
    /\ seq[j].sign_name # Undefined
    /\ seq[j].sign_name = seq[j - 1].sign_name

\* C7: uniquePlan is plan without the signs that repeat the sign_name of the
\* sign right before them in plan: every other item is kept, in order, and
\* no two neighbours in uniquePlan are signs with the same sign_name.
CollapseDropsAdjacentRepeats ==
    \A sid \in Tokens : Running(sid) =>
        LET plan == sessions[sid].plan
            uniquePlan == sessions[sid].uniquePlan IN
        /\ uniquePlan = Pick(plan, {j \in 1..Len(plan) : ~RepeatsPrevious(plan, j)}, 1)
        /\ \A j \in 1..Len(uniquePlan) : ~RepeatsPrevious(uniquePlan, j)
CollapseDropsAdjacentRepeatsWitness ==
    LET I == SignItem("I", "gif")
        WANT == SignItem("WANT", Undefined)
        APPLE == SignItem("APPLE", "gif") IN
    /\ sessions[1].plan = <<I, WANT, WANT, APPLE>>
    /\ sessions[1].uniquePlan = <<I, WANT, APPLE>>

\* the indices of the signs of uniquePlan that have a sign_name
NamedSigns(uniquePlan) ==
    {j \in 1..Len(uniquePlan) :
        uniquePlan[j].type = "sign" /\ uniquePlan[j].sign_name # Undefined}
NonSigns(uniquePlan) ==
    {j \in 1..Len(uniquePlan) : uniquePlan[j].type # "sign"}

\* C8 as stated: single sign mode only for a uniquePlan that is one sign
\* item; two or more signs, or signs mixed with other items, run
\* sequentially.
LoopOnlyForLoneSign ==
    \A sid \in Tokens : Running(sid) =>
        LET uniquePlan == sessions[sid].uniquePlan
            signs == {j \in 1..Len(uniquePlan) : uniquePlan[j].type = "sign"} IN
        /\ sessions[sid].mode = "loop" => (Len(uniquePlan) = 1 /\ signs = {1})
        /\ (Cardinality(signs) >= 2 \/ (signs # {} /\ NonSigns(uniquePlan) # {}))
               => sessions[sid].mode = "seq"

\* where a sequential session stands in uniquePlan
SeqPosition(sid) ==
    LET s == sessions[sid] IN
    (s.mode = "seq" /\ Running(sid)) =>
        /\ s.i \in 1..Len(s.uniquePlan)
        /\ s.pc = "text" <=> s.i \notin NamedSigns(s.uniquePlan)
        /\ s.pc = "pause" => s.i < Len(s.uniquePlan)
\* A sequential session moves on by one item at a time and ends after the
\* last; in a superseded session playSingleSign returns at once, so the task
\* that reaches a last item that is a named sign also ends the session.
SeqAdvance(sid) ==
    LET s == sessions[sid]
        t == sessions'[sid] IN
    (s.mode = "seq" /\ Running(sid) /\ t # s) =>
        /\ t.pc # "done" => t.i \in {s.i, s.i + 1}
        /\ (t.pc # "done" /\ s.pc \in {"text", "pause"}) => t.i = s.i + 1
        /\ t.pc = "done" =>
              \/ s.i = Len(s.uniquePlan)
              \/ /\ sid # playbackId
                 /\ s.i = Len(s.uniquePlan) - 1
                 /\ Len(s.uniquePlan) \in NamedSigns(s.uniquePlan)

\* C8, amended: a session is in single sign mode exactly when uniquePlan
\* holds exactly one sign with a sign_name, whatever other items it holds;
\* otherwise it is sequential: it goes through uniquePlan once, an item at a
\* time, and waits the text pause at every item that is no named sign.
ModeBySignCount ==
    /\ [](\A sid \in Tokens : Running(sid) =>
              /\ sessions[sid].mode \in {"loop", "seq"}
              /\ sessions[sid].mode = "loop"
                    <=> Cardinality(NamedSigns(sessions[sid].uniquePlan)) = 1)
    /\ [](\A sid \in Tokens : SeqPosition(sid))
    /\ [][\A sid \in Tokens : SeqAdvance(sid)]_vars
ModeBySignCountWitness ==
    \E sid \in Tokens :
        /\ sessions[sid].mode = "loop" /\ sessions[sid].pc = "pause"
        /\ Len(sessions[sid].uniquePlan) = 2
        /\ NonSigns(sessions[sid].uniquePlan) # {}

\* C9: in single sign mode, with no later stopPlayback or playSequence and
\* every fetch and timer returning, playSingleSign is entered again and
\* again, each time followed by the 300 ms pause; Cleanup is never reached.
LoopForever ==
    <>[](CurExists /\ Cur.mode = "loop")
        => ([]<>(Cur.pc = "fetch") /\ []<>(Cur.pc = "pause"))
LoopForeverWitness ==
    CurExists /\ Cur.mode = "loop" /\ Cur.pc = "pause" /\ rig = "pose"

\* C10: a sequential session that stays the current one, with every fetch
\* and timer returning, reaches the end of uniquePlan and then has set
\* isPlaying to false and cleared currentToken and currentGifUrl.
SequentialCompletes ==
    <>[](CurExists /\ Cur.mode = "seq")
        => <>(/\ Cur.pc = "done"
              /\ ~isPlaying
              /\ currentToken = Undefined
              /\ currentGifUrl = Undefined)
SequentialCompletesWitness ==
    /\ playbackId = 1 /\ Cur.mode = "seq" /\ Cur.pc = "done"
    /\ ~isPlaying /\ currentToken = Undefined /\ currentGifUrl = Undefined
    /\ rig = "pose"

\* a task of the session that holds the current id, in sequential mode
\* (or the call of playSequence that starts it), from locals s to locals t
LiveSeqStep(sid, s, t) ==
    /\ sid = playbackId' /\ t # s /\ t.mode = "seq"
    /\ s.pc = "none" \/ (sid = playbackId /\ s.mode = "seq")

\* C11: a sequential session that holds the current id enters playSingleSign
\* for the named signs of uniquePlan in order, one index after the other and
\* none left out, only from the start of playSequence or from a pause (so
\* after the previous playSingleSign returned), and currentToken is then the
\* token of that item; it ends only after the last item.
PlaysSignsInOrder ==
    [][\A sid \in Tokens :
          LET s == sessions[sid]
              t == sessions'[sid] IN
          LiveSeqStep(sid, s, t) =>
              /\ t.pc = "fetch" =>
                    /\ s.pc \in {"none", "pause", "text"}
                    /\ t.i = s.i + 1
                    /\ currentToken' = t.uniquePlan[t.i].token
              /\ (t.pc # "done" /\ t.i # s.i) =>
                    /\ t.i = s.i + 1
                    /\ t.i \in NamedSigns(t.uniquePlan) <=> t.pc = "fetch"
              /\ (t.pc = "done" /\ s.pc # "none") => s.i = Len(s.uniquePlan)]_vars
PlaysSignsInOrderWitness ==
    /\ CurExists /\ Cur.mode = "seq" /\ Cur.pc = "fetch"
    /\ Cur.i = 2 /\ NamedSigns(Cur.uniquePlan) = {1, 2}
    /\ currentToken = Cur.uniquePlan[2].token

\* C12: the task in which a session enters playSingleSign and issues the
\* fetch for an item has, when it suspends at the fetch, set currentToken to
\* the item's token and, if the item has a gif, currentGifUrl to its URL.
SetsTokenBeforeFetch ==
    [][\A sid \in Tokens :
          LET s == sessions[sid]
              t == sessions'[sid] IN
          (t.pc = "fetch" /\ t # s) =>
              LET item == t.uniquePlan[t.i] IN
              /\ currentToken' = item.token
              /\ item.gif # Undefined => currentGifUrl' = GifUrl(item)]_vars
SetsTokenBeforeFetchWitness ==
    /\ CurExists /\ Cur.pc = "fetch" /\ Cur.i = 2
    /\ Cur.uniquePlan[2].gif # Undefined
    /\ currentToken = Cur.uniquePlan[2].token
    /\ currentGifUrl = GifUrl(Cur.uniquePlan[2])

\* the item of session sid is over in world w and the session goes on: the
\* loop pauses before it plays again, the sequence pauses before its next
\* item, or ends if the item was its last
ItemOverSessionGoesOn(sid, w) ==
    LET s == sessions[sid] IN
    /\ w.gif = Undefined
    /\ IF s.mode = "loop" \/ s.i < Len(s.uniquePlan)
       THEN w.s.pc = "pause" /\ w.s.i = s.i /\ w.s.uniquePlan = s.uniquePlan
       ELSE w.s.pc = "done"

\* the failure is absorbed: the item is held for what is left of the dwell
\* budget, or is over, and the session goes on
Absorbed(sid, w, elapsed) ==
    IF elapsed < SIGN_DURATION
    THEN /\ w.s.pc = "dwell" /\ w.s.i = sessions[sid].i
         /\ w.tok = currentToken /\ w.gif = currentGifUrl /\ w.playing = isPlaying
    ELSE ItemOverSessionGoesOn(sid, w)

\* C13: for the session that holds the current id, a fetch that fails (null)
\* or gives no frames leads to no updateFrame call, and so does a renderer
\* call that throws; in each case the item waits out the dwell budget and,
\* when the dwell ends, the session pauses and goes on (it ends only after
\* the last item of a sequence).
FailuresAreAbsorbed ==
    \A sid \in Tokens : (sid = playbackId /\ Running(sid)) =>
        /\ sessions[sid].pc = "fetch" =>
              \A data \in {d \in FetchResults : d.isNull \/ ExtractFrames(d) = <<>>} :
                  \A elapsed \in ElapsedSet :
                      LET w == AfterFetch(World(sid), data, elapsed) IN
                      ~w.wrote /\ w.rig = rig /\ Absorbed(sid, w, elapsed)
        /\ RaiseOutcomes(sid, FetchResults) # {} =>
              \A elapsed \in ElapsedSet :
                  LET w == RendererRaised(World(sid), elapsed) IN
                  ~w.wrote /\ Absorbed(sid, w, elapsed)
        /\ sessions[sid].pc = "dwell" =>
              \A w \in DwellOutcomes(sid) : ItemOverSessionGoesOn(sid, w)
FailuresAreAbsorbedWitness ==
    /\ playbackId = 1 /\ avatarRef
    /\ sessions[1].mode = "seq" /\ sessions[1].pc = "fetch"
    /\ sessions[1].i = 1 /\ Len(sessions[1].uniquePlan) = 2
    /\ AfterFetch(World(1), NullData, 0).s.pc = "dwell"
    /\ AfterFetch(World(1), NullData, SIGN_DURATION).s.pc = "pause"
    /\ RaiseOutcomes(1, FetchResults) # {}

\* C14: whenever the session that holds the current id waits for a fetch,
\* it later is past that fetch, whether or not the fetch returns: timers
\* alone (the dwell budget) end the item.
DwellBoundsFetch ==
    [](CurExists /\ Cur.pc = "fetch" => <>(~(CurExists /\ Cur.pc = "fetch")))

\* ------------------------------------------------------------ time
\* the pause after a sign, the pause for an item that is no named sign, and
\* the longest wait for the avatar
SIGN_PAUSE == 300
TEXT_PAUSE == 500
maxWait == 2000
\* the clock stops the timed specifications here
MaxTime == 10000
\* longest frame list of FpsSpec
MaxFpsFrames == 31

Max(a, b) == IF a > b THEN a ELSE b

\* how long a fetch takes, in ms
Latencies == {0, 100, 2950, 3200}

\* a fixed 10 frames per second
FpsBug(frames) == 10 * (SIGN_DURATION \div 1000)
\* fps = Math.max(10, frames.length / (SIGN_DURATION / 1000)), times
\* SIGN_DURATION / 1000
Fps(frames) == Max(10 * (SIGN_DURATION \div 1000), Len(frames))

\* interval = 1000 / fps, in whole ms
Interval(frames) == SIGN_DURATION \div Fps(frames)

\* the delay of the timer (or the time of the fetch) at which locals s wait
Delay(s, elapsed, latency) ==
    CASE s.pc = "fetch" -> latency
      [] s.pc = "avatarWait" -> maxWait
      [] s.pc = "anim" -> Interval(s.frames)
      [] s.pc = "dwell" -> SIGN_DURATION - elapsed
      [] s.pc = "pause" -> SIGN_PAUSE
      [] s.pc = "text" -> TEXT_PAUSE
      [] OTHER -> 0

\* A task of session sid that ran at time at and left locals s.  Timers
\* fire and fetches settle exactly when due, and a task takes no time.
Advance(sid, s, at, elapsed, latency) ==
    /\ now' = at
    /\ startTime' = IF s.pc = "fetch" THEN [startTime EXCEPT ![sid] = at]
                    ELSE startTime
    /\ fps' = [fps EXCEPT ![sid] = IF s.pc = "anim" THEN Fps(s.frames) ELSE 0]
    /\ maxLatency' = IF s.pc = "fetch"
                     THEN [maxLatency EXCEPT ![sid] = Max(@, latency)]
                     ELSE maxLatency
    /\ due' = [due EXCEPT ![sid] = at + Delay(s, elapsed, latency)]
    /\ UNCHANGED rigVars

\* the first call of playSequence, at time 0
TimedPlaySequence(plan, latencies) ==
    /\ playbackId = 0
    /\ LET r == PlaySequenceResult(plan, FALSE) IN
       /\ StoreResult(r)
       /\ \E latency \in latencies :
             Advance(r.playbackId, r.sessions[r.playbackId], now, 0, latency)

\* session sid is the next to run
IsDue(sid) ==
    /\ Running(sid)
    /\ due[sid] <= MaxTime
    /\ \A o \in Tokens : Running(o) => due[sid] <= due[o]

\* the fetch of session sid settles
TimedFetchReturn(sid, results, latencies) ==
    /\ IsDue(sid)
    /\ sessions[sid].pc = "fetch"
    /\ LET elapsed == due[sid] - startTime[sid]
           w0 == World(sid) IN
       \E w \in {AfterFetch(w0, data, elapsed) : data \in results}
                   \cup (IF w0.avatar THEN {RendererRaised(w0, elapsed)} ELSE {}) :
           /\ Store(w)
           /\ \E latency \in latencies : Advance(sid, w.s, due[sid], elapsed, latency)

\* the timer of session sid fires
TimedTimer(sid, latencies) ==
    /\ IsDue(sid)
    /\ LET elapsed == due[sid] - startTime[sid]
           w0 == World(sid) IN
       \E w \in CASE w0.s.pc = "avatarWait" -> {TryAnimate(w0, elapsed)}
                  [] w0.s.pc = "anim" -> {AfterAnimSleep(w0, elapsed)}
                  [] w0.s.pc = "dwell" -> DwellOutcomes(sid)
                  [] w0.s.pc = "pause" -> PauseOutcomes(sid)
                  [] w0.s.pc = "text" -> TextPauseOutcomes(sid)
                  [] OTHER -> {} :
           /\ Store(w)
           /\ \E latency \in latencies : Advance(sid, w.s, due[sid], elapsed, latency)

\* one session with the clock; the avatar is there from the start or never
TimedNext ==
    \/ \E plan \in FairPlans : TimedPlaySequence(plan, Latencies)
    \/ playbackId = 0 /\ SetAvatar
    \/ playbackId = 1 /\ stopPlayback
    \/ \E sid \in Tokens : TimedFetchReturn(sid, FairFetchResults, Latencies)
    \/ \E sid \in Tokens : TimedTimer(sid, Latencies)

TimedSpec == Init /\ [][TimedNext]_vars

\* bodies with n valid pose frames
FpsFetchResults ==
    {[isNull |-> FALSE,
      pose_frames |-> [j \in 1..n |-> PoseFrameOf("valid")],
      hand_frames |-> <<>>, frames |-> <<>>] : n \in 1..MaxFpsFrames}

\* one sign played in a loop with frame lists of every length, fetched at once
FpsNext ==
    \/ TimedPlaySequence(<<SignItem("I", "gif")>>, {0})
    \/ playbackId = 0 /\ SetAvatar
    \/ \E sid \in Tokens : TimedFetchReturn(sid, FpsFetchResults, {0})
    \/ \E sid \in Tokens : TimedTimer(sid, {0})

FpsSpec == Init /\ [][FpsNext]_vars

\* where a session waits inside playSingleSign
InSign == {"fetch", "avatarWait", "anim", "dwell"}

\* C15: the task in which playSingleSign returns runs at least SIGN_DURATION
\* ms after the task that set currentToken (and startTime), whatever the
\* fetch took and gave, however many frames were played, with or without an
\* avatar.
TakesTheDwellBudget ==
    [][\A sid \in Tokens :
          (sessions[sid].pc \in InSign /\ sessions'[sid].pc \notin InSign)
              => now' - startTime[sid] >= SIGN_DURATION]_vars
TakesTheDwellBudgetWitness ==
    /\ sessions[1].pc = "pause" /\ sessions[1].mode = "seq"
    /\ maxLatency[1] = 100 /\ avatarRef
    /\ now - startTime[1] = SIGN_DURATION

\* C16: a sequential session of n >= 2 signs, all named and none dropped by
\* the collapse, whose fetches all took less than SIGN_DURATION, ends
\* n * SIGN_DURATION + (n - 1) * SIGN_PAUSE ms after playSequence was called
\* (at time 0).
SequentialDuration ==
    [][\A sid \in Tokens :
          LET s == sessions[sid]
              n == Len(s.uniquePlan) IN
          (/\ sid = playbackId /\ s.mode = "seq" /\ Running(sid)
           /\ sessions'[sid].pc = "done"
           /\ n >= 2 /\ s.plan = s.uniquePlan /\ NamedSigns(s.uniquePlan) = 1..n
           /\ maxLatency[sid] < SIGN_DURATION)
              => now' = n * SIGN_DURATION + (n - 1) * SIGN_PAUSE]_vars

\* C17 as stated: frames.length * (1000 / fps) is SIGN_DURATION for every
\* frame list that is played (fps[sid] is fps * SIGN_DURATION / 1000).
AnimationFillsBudget ==
    \A sid \in Tokens : sessions[sid].pc = "anim" =>
        Len(sessions[sid].frames) * SIGN_DURATION = SIGN_DURATION * fps[sid]

\* C17, amended: frames.length * (1000 / fps) is SIGN_DURATION when the list
\* has at least 30 frames (a longer list is compressed to the budget), and
\* 100 ms a frame, less than SIGN_DURATION in all, when it has fewer (a short
\* list is not stretched: fps is never under 10).
AnimationTimeByFrameCount ==
    \A sid \in Tokens : sessions[sid].pc = "anim" =>
        LET n == Len(sessions[sid].frames) IN
        n * SIGN_DURATION = Min(n * 100, SIGN_DURATION) * fps[sid]
AnimationTimeByFrameCountWitness ==
    /\ sessions[1].pc = "anim"
    /\ Len(sessions[1].frames) > 30
    /\ fps[1] = Len(sessions[1].frames)
    /\ sessions[1].k = Len(sessions[1].frames)


\* ------------------------------------------------------------ the rig
\* AvatarController's three rigs in detail.  A landmark is kept by what the
\* code asks of it: "valid" has three or more numbers that are not all zero,
\* "zero" is (0,0,0), "short" is null or has fewer than three components,
\* "nan" has NaN for x (so it is not all zero).
PoseJointCount == 33
HandJointCount == 21
Kinds == {"valid", "zero", "short", "nan"}

\* createRig's connections and HAND_CONNECTIONS, as <<start, end>>
connections ==
    << <<0, 1>>, <<1, 2>>, <<2, 3>>, <<3, 7>>,
       <<0, 4>>, <<4, 5>>, <<5, 6>>, <<6, 8>>,
       <<9, 10>>,
       <<11, 12>>, <<11, 23>>, <<12, 24>>, <<23, 24>>,
       <<11, 13>>, <<13, 15>>, <<15, 17>>, <<15, 19>>, <<15, 21>>, <<17, 19>>,
       <<12, 14>>, <<14, 16>>, <<16, 18>>, <<16, 20>>, <<16, 22>>, <<18, 20>>,
       <<23, 25>>, <<25, 27>>, <<27, 29>>, <<29, 31>>, <<27, 31>>,
       <<24, 26>>, <<26, 28>>, <<28, 30>>, <<30, 32>>, <<28, 32>> >>
HAND_CONNECTIONS ==
    << <<0, 1>>, <<1, 2>>, <<2, 3>>, <<3, 4>>,
       <<0, 5>>, <<5, 6>>, <<6, 7>>, <<7, 8>>,
       <<0, 9>>, <<9, 10>>, <<10, 11>>, <<11, 12>>,
       <<0, 13>>, <<13, 14>>, <<14, 15>>, <<15, 16>>,
       <<0, 17>>, <<17, 18>>, <<18, 19>>, <<19, 20>>,
       <<5, 9>>, <<9, 13>>, <<13, 17>> >>

\* A frame handed to updateFrame: null, or an object whose pose, left_hand
\* and right_hand are each missing or a list of landmarks (points[i + 1] is
\* landmark i).
Absent == [given |-> FALSE, points |-> <<>>]
Given(points) == [given |-> TRUE, points |-> points]
RigFrame(p, l, r) == [isNull |-> FALSE, pose |-> p, left_hand |-> l, right_hand |-> r]
NullFrame == [isNull |-> TRUE, pose |-> Absent, left_hand |-> Absent, right_hand |-> Absent]

\* The landmarks the frames differ in; the others of a list are all alike.
PoseVary == {13, 15}
HandVary == {0}
\* lists of n landmarks, and lists of the wrong length
PointLists(n, vary) ==
    {[i \in 1..n |-> IF (i - 1) \in S THEN k ELSE b] :
        S \in SUBSET vary, k \in Kinds, b \in {"valid", "zero"}}
    \cup {[i \in 1..n |-> k] : k \in Kinds}
    \cup {[i \in 1..(n - 1) |-> "valid"], <<>>}
PoseArgs == {Given(p) : p \in PointLists(PoseJointCount, PoseVary)}
HandArgs == {Given(p) : p \in PointLists(HandJointCount, HandVary)}
AllValid(n) == Given([i \in 1..n |-> "valid"])
AllZero(n) == Given([i \in 1..n |-> "zero"])
RigFrames ==
    {NullFrame, RigFrame(Absent, Absent, Absent)}
    \cup {RigFrame(p, Absent, Absent) : p \in PoseArgs}
    \cup {RigFrame(Absent, l, r) : l \in HandArgs \cup {Absent}, r \in HandArgs \cup {Absent}}
    \cup {RigFrame(AllValid(PoseJointCount), l, r) :
            l \in {Absent, AllValid(HandJointCount), AllZero(HandJointCount), Given(<<>>)},
            r \in {Absent, AllValid(HandJointCount)}}

\* the six lists of meshes, as the sets of the indices of the visible ones
RigNow ==
    [joints |-> joints, bones |-> bones,
     leftHandJoints |-> leftHandJoints, leftHandBones |-> leftHandBones,
     rightHandJoints |-> rightHandJoints, rightHandBones |-> rightHandBones]

hideAllPoseBug(r) == [r EXCEPT !.joints = {}]
hideAllPose(r) == [r EXCEPT !.joints = {}, !.bones = {}]
hideAllHandsBug(r) == [r EXCEPT !.leftHandJoints = {}, !.leftHandBones = {}]
hideAllHands(r) ==
    [r EXCEPT !.leftHandJoints = {}, !.rightHandJoints = {},
              !.leftHandBones = {}, !.rightHandBones = {}]

\* points.some(p => p && Array.isArray(p) && p.length >= 3 && !isNaN(p[0])
\*                  && (p[0] !== 0 || p[1] !== 0 || p[2] !== 0))
isPresentBug(points) == \E i \in 1..Len(points) : points[i] \in {"valid", "zero"}
isPresent(points) == \E i \in 1..Len(points) : points[i] = "valid"

\* the joint loop: landmark i is skipped (its joint hidden) when it is
\* missing, short or all zero, and shown otherwise
ShownJointsBug(points, n) ==
    {i \in 0..(n - 1) : /\ points[i + 1] \notin {"short", "zero"}
                        /\ (i > 0 => points[i] # "zero")}
ShownJoints(points, n) == {i \in 0..(n - 1) : points[i + 1] \notin {"short", "zero"}}

\* the bone loop: b.line.visible = jStart.visible && jEnd.visible
ShownBonesBug(conns, shown) ==
    {b \in 1..Len(conns) : conns[b][1] \in shown}
ShownBones(conns, shown) ==
    {b \in 1..Len(conns) : conns[b][1] \in shown /\ conns[b][2] \in shown}

\* updateHand(points, joints, bones, offsetX): the visible joints and bones
\* of that hand after the call, and its return value
updateHand(points) ==
    IF Len(points) # HandJointCount \/ ~isPresent(points)
    THEN [joints |-> {}, bones |-> {}, valid |-> FALSE]
    ELSE LET shown == ShownJoints(points, HandJointCount) IN
         [joints |-> shown, bones |-> ShownBones(HAND_CONNECTIONS, shown), valid |-> TRUE]

\* updateFrame(frame), from the rig r: the rig after the call and the
\* return value
updateFrame(r, frame) ==
    IF frame.isNull
    THEN [rig |-> hideAllHands(hideAllPose(r)), returned |-> FALSE]
    ELSE IF frame.left_hand.given \/ frame.right_hand.given
    THEN LET NoHand == [joints |-> {}, bones |-> {}, valid |-> FALSE]
             left == IF frame.left_hand.given
                     THEN updateHand(frame.left_hand.points) ELSE NoHand
             right == IF frame.right_hand.given
                      THEN updateHand(frame.right_hand.points) ELSE NoHand
         IN [rig |-> [hideAllPose(r) EXCEPT
                         !.leftHandJoints = left.joints, !.leftHandBones = left.bones,
                         !.rightHandJoints = right.joints, !.rightHandBones = right.bones],
             returned |-> left.valid \/ right.valid]
    ELSE LET h == hideAllHands(r)
             points == frame.pose.points
         IN IF ~frame.pose.given \/ Len(points) # PoseJointCount \/ ~isPresent(points)
            THEN [rig |-> hideAllPose(h), returned |-> FALSE]
            ELSE LET shown == ShownJoints(points, PoseJointCount) IN
                 [rig |-> [h EXCEPT !.joints = shown,
                                    !.bones = ShownBones(connections, shown)],
                  returned |-> TRUE]

\* one call of updateFrame
UpdateFrameCall(frame) ==
    LET out == updateFrame(RigNow, frame) IN
    /\ joints' = out.rig.joints
    /\ bones' = out.rig.bones
    /\ leftHandJoints' = out.rig.leftHandJoints
    /\ leftHandBones' = out.rig.leftHandBones
    /\ rightHandJoints' = out.rig.rightHandJoints
    /\ rightHandBones' = out.rig.rightHandBones
    /\ lastFrame' = <<frame>>
    /\ lastReturn' = out.returned
    /\ UNCHANGED <<playbackId, isPlaying, currentToken, currentGifUrl, closures,
                   avatarRef, rig, sessions, timeVars, anim, response, raf>>

RigNext == \E frame \in RigFrames : UpdateFrameCall(frame)
RigSpec == Init /\ [][RigNext]_vars

\* ------------------------------------------------------------ claims on the rig
\* the frame of the last updateFrame call
IsHandFrame(frame) ==
    ~frame.isNull /\ (frame.left_hand.given \/ frame.right_hand.given)
\* a list that is missing, has not n landmarks, or has no landmark that is a
\* coordinate other than (0,0,0)
NoData(arg, n) ==
    \/ ~arg.given
    \/ Len(arg.points) # n
    \/ \A i \in 1..Len(arg.points) : arg.points[i] # "valid"
AllHidden(js, bs) == js = {} /\ bs = {}

\* C18: after updateFrame on null everything is hidden and the call returned
\* false; after a pose frame whose pose is not 33 landmarks or has no landmark
\* other than (0,0,0) the pose rig is hidden and the call returned false; after
\* a hand frame each hand that is not 21 landmarks or has no landmark other
\* than (0,0,0) has its rig hidden, and the call returned false when that is
\* so for both hands.  Whatever was shown before the call.
BlankInputHidesRig ==
    lastFrame # <<>> =>
        LET frame == lastFrame[1] IN
        /\ frame.isNull =>
              /\ ~lastReturn
              /\ AllHidden(joints, bones)
              /\ AllHidden(leftHandJoints, leftHandBones)
              /\ AllHidden(rightHandJoints, rightHandBones)
        /\ ~frame.isNull /\ ~IsHandFrame(frame) /\ NoData(frame.pose, PoseJointCount) =>
              ~lastReturn /\ AllHidden(joints, bones)
        /\ IsHandFrame(frame) /\ NoData(frame.left_hand, HandJointCount) =>
              AllHidden(leftHandJoints, leftHandBones)
        /\ IsHandFrame(frame) /\ NoData(frame.right_hand, HandJointCount) =>
              AllHidden(rightHandJoints, rightHandBones)
        /\ /\ IsHandFrame(frame)
           /\ NoData(frame.left_hand, HandJointCount)
           /\ NoData(frame.right_hand, HandJointCount)
           => ~lastReturn

\* updateFrame was last called with 33 landmarks that are all (0,0,0)
BlankInputHidesRigWitness ==
    /\ lastFrame = <<RigFrame(AllZero(PoseJointCount), Absent, Absent)>>
    /\ ~lastReturn
    /\ AllHidden(joints, bones)

BonesFollowJoints(conns, js, bs) ==
    /\ bs \subseteq 1..Len(conns)
    /\ \A b \in 1..Len(conns) : b \in bs <=> (conns[b][1] \in js /\ conns[b][2] \in js)

\* C19: in every state, in the pose rig and in either hand rig, a bone is
\* visible if and only if the joints at both of its ends are visible.
BoneIffBothJoints ==
    /\ BonesFollowJoints(connections, joints, bones)
    /\ BonesFollowJoints(HAND_CONNECTIONS, leftHandJoints, leftHandBones)
    /\ BonesFollowJoints(HAND_CONNECTIONS, rightHandJoints, rightHandBones)

\* a pose is shown of which one joint is hidden and a neighbour of it is
\* visible: the bone between them is hidden, other bones are visible
BoneIffBothJointsWitness ==
    /\ lastFrame # <<>> /\ lastReturn
    /\ \E b \in 1..Len(connections) :
          /\ connections[b][1] \notin joints
          /\ connections[b][2] \in joints
          /\ b \notin bones
    /\ bones # {}

\* a list of n landmarks of which one at least is a coordinate other than
\* (0,0,0)
HasData(arg, n) ==
    /\ arg.given
    /\ Len(arg.points) = n
    /\ \E i \in 1..n : arg.points[i] = "valid"

\* C20: updateFrame returned true if and only if the frame was a pose frame of
\* 33 landmarks with at least one that is not (0,0,0), or a hand frame of which
\* at least one hand has 21 landmarks with at least one that is not (0,0,0);
\* however many joints the call left hidden.
ReturnsTrueIffData ==
    lastFrame # <<>> =>
        LET frame == lastFrame[1] IN
        lastReturn <=>
            /\ ~frame.isNull
            /\ IF IsHandFrame(frame)
               THEN \/ HasData(frame.left_hand, HandJointCount)
                    \/ HasData(frame.right_hand, HandJointCount)
               ELSE HasData(frame.pose, PoseJointCount)

\* a hand frame whose left hand is all (0,0,0) and whose right hand has one
\* landmark only: the call returned true with all but one joint hidden
ReturnsTrueIffDataWitness ==
    /\ lastFrame # <<>>
    /\ IsHandFrame(lastFrame[1])
    /\ lastFrame[1].left_hand = AllZero(HandJointCount)
    /\ lastReturn
    /\ leftHandJoints = {}
    /\ Cardinality(rightHandJoints) = 1


\* ------------------------------------------------------------ the renderer's playSequence
MaxLead == 6
MaxValidRun == 10
MaxBlankRun == 15

\* The frames of a list, by name: a full pose, a pose of two landmarks, a
\* left hand; and a pose that is all (0,0,0), a pose of 32 landmarks, an
\* object without lists, two hands that are all (0,0,0), and null.
FrameNamed(name) ==
    CASE name = "pose" -> RigFrame(AllValid(PoseJointCount), Absent, Absent)
      [] name = "part" ->
            RigFrame(Given([i \in 1..PoseJointCount |->
                               IF (i - 1) \in PoseVary THEN "valid" ELSE "zero"]),
                     Absent, Absent)
      [] name = "hand" -> RigFrame(Absent, AllValid(HandJointCount), Absent)
      [] name = "zero" -> RigFrame(AllZero(PoseJointCount), Absent, Absent)
      [] name = "short" -> RigFrame(AllValid(PoseJointCount - 1), Absent, Absent)
      [] name = "none" -> RigFrame(Absent, Absent, Absent)
      [] name = "handZero" ->
            RigFrame(Absent, AllZero(HandJointCount), AllZero(HandJointCount))
      [] name = "null" -> NullFrame
ValidNames == {"pose", "part", "hand"}
BlankNames == {"zero", "short", "none", "handZero"}
InvalidNames == BlankNames \cup {"null"}

Run(name, n) == [j \in 1..n |-> name]
\* lists that begin with invalid frames, and lists of valid frames followed
\* by invalid frames and perhaps one more valid frame
FrameLists ==
    {Run(x, e) \o Run(v, m) : x \in InvalidNames, e \in 0..MaxLead,
                              v \in ValidNames, m \in 0..2}
    \cup {Run(v, m) \o Run(y, n) \o Run(v, p) :
            v \in {"pose", "hand"}, m \in 1..MaxValidRun,
            y \in InvalidNames, n \in 0..MaxBlankRun, p \in 0..1}
    \cup {<<"pose", "zero", "null", "short">>, <<"zero", "pose", "zero", "null">>}

\* checkFrameHasData(frame) on the landmark lists: frame.left_hand of null
\* throws a TypeError
checkHand(arg) ==
    arg.given /\ Len(arg.points) = HandJointCount /\ isPresent(arg.points)
checkFrame(frame) ==
    IF frame.isNull THEN [threw |-> TRUE, value |-> FALSE]
    ELSE IF frame.left_hand.given \/ frame.right_hand.given
    THEN [threw |-> FALSE,
          value |-> checkHand(frame.left_hand) \/ checkHand(frame.right_hand)]
    ELSE [threw |-> FALSE,
          value |-> /\ frame.pose.given
                    /\ Len(frame.pose.points) = PoseJointCount
                    /\ isPresent(frame.pose.points)]

\* an early check that never finds the list blank
EarlyCheckBug(frames) ==
    IF \E j \in 1..Min(earlyCheckFrames, Len(frames)) : checkFrame(FrameNamed(frames[j])).threw
    THEN "threw" ELSE "go"
\* the early check of playSequence: "threw", "blank" or "go"
EarlyCheck(frames) ==
    LET n == Min(earlyCheckFrames, Len(frames))
        verdict(j) == checkFrame(FrameNamed(frames[j])) IN
    IF \E j \in 1..n : verdict(j).threw THEN "threw"
    ELSE IF Cardinality({j \in 1..n : ~verdict(j).value}) = n THEN "blank"
    ELSE "go"

\* the renderer while playSequence runs: its rig and the call's locals
AnimNow == [rig |-> RigNow, a |-> anim, lastFrame |-> lastFrame, lastReturn |-> lastReturn]
\* this.updateFrame(frame) inside playSequence
Show(st, frame) ==
    LET out == updateFrame(st.rig, frame) IN
    [st EXCEPT !.rig = out.rig, !.lastFrame = <<frame>>, !.lastReturn = out.returned,
               !.a.calls = @ + 1]
Returns(st, value) == [st EXCEPT !.a.pc = "returned", !.a.result = value]

\* a frame loop that stops one blank frame late
LoopStepBug(st, j) ==
    LET s1 == [Show(st, FrameNamed(st.a.frames[j])) EXCEPT !.a.k = j]
        Sleep(s) == [s EXCEPT !.a.pc = "sleep", !.a.sleeps = @ + 1] IN
    IF s1.lastReturn
    THEN Sleep([s1 EXCEPT !.a.hasValidFrames = TRUE, !.a.consecutiveBlankFrames = 0])
    ELSE LET s2 == [s1 EXCEPT !.a.consecutiveBlankFrames = @ + 1] IN
         IF s2.a.hasValidFrames /\ s2.a.consecutiveBlankFrames > maxConsecutiveBlanks
         THEN Returns(s2, s2.a.hasValidFrames)
         ELSE Sleep(s2)
\* one iteration of "for (const frame of frames)" up to its sleep or break
LoopStep(st, j) ==
    LET s1 == [Show(st, FrameNamed(st.a.frames[j])) EXCEPT !.a.k = j]
        Sleep(s) == [s EXCEPT !.a.pc = "sleep", !.a.sleeps = @ + 1] IN
    IF s1.lastReturn
    THEN Sleep([s1 EXCEPT !.a.hasValidFrames = TRUE, !.a.consecutiveBlankFrames = 0])
    ELSE LET s2 == [s1 EXCEPT !.a.consecutiveBlankFrames = @ + 1] IN
         IF s2.a.hasValidFrames /\ s2.a.consecutiveBlankFrames >= maxConsecutiveBlanks
         THEN Returns(s2, s2.a.hasValidFrames)
         ELSE Sleep(s2)

\* playSequence from the early check to its first sleep, return or throw
PlayFrames(s0, frames) ==
    LET early == EarlyCheck(frames) IN
    IF early = "threw" THEN [s0 EXCEPT !.a.pc = "threw"]
    ELSE IF early = "blank"
         THEN Returns(Show(s0, FrameNamed(frames[1])), FALSE)
    ELSE LoopStep(s0, 1)

\* a playSequence that clears the rig when it is given no frames
RigPlaySequenceBug(st, frames) ==
    LET s0 == [st EXCEPT !.a = [NoAnim EXCEPT !.frames = frames]] IN
    IF Len(frames) = 0
    THEN Returns(Show(s0, NullFrame), FALSE)
    ELSE PlayFrames(s0, frames)
\* playSequence(frames, fps) from the call to its first sleep, return or throw
RigPlaySequence(st, frames) ==
    LET s0 == [st EXCEPT !.a = [NoAnim EXCEPT !.frames = frames]] IN
    IF Len(frames) = 0 THEN Returns(s0, FALSE)
    ELSE PlayFrames(s0, frames)

\* a frame loop that answers, at the end of the list, whether the last frame
\* had data
AfterSleepBug(st) ==
    IF st.a.k + 1 > Len(st.a.frames) THEN Returns(st, st.a.consecutiveBlankFrames = 0)
    ELSE LoopStep(st, st.a.k + 1)
\* the frame loop after its sleep: the next frame, or the end of the list
AfterSleep(st) ==
    IF st.a.k + 1 > Len(st.a.frames) THEN Returns(st, st.a.hasValidFrames)
    ELSE LoopStep(st, st.a.k + 1)

StoreAnim(st) ==
    /\ joints' = st.rig.joints
    /\ bones' = st.rig.bones
    /\ leftHandJoints' = st.rig.leftHandJoints
    /\ leftHandBones' = st.rig.leftHandBones
    /\ rightHandJoints' = st.rig.rightHandJoints
    /\ rightHandBones' = st.rig.rightHandBones
    /\ lastFrame' = st.lastFrame
    /\ lastReturn' = st.lastReturn
    /\ anim' = st.a
    /\ UNCHANGED <<playbackId, isPlaying, currentToken, currentGifUrl, closures,
                   avatarRef, rig, sessions, timeVars, response, raf>>

\* the rig before the call: what earlier updateFrame calls left
ShowBefore(frame) == anim.pc = "idle" /\ UpdateFrameCall(frame)
StartPlaySequence(frames) == anim.pc = "idle" /\ StoreAnim(RigPlaySequence(AnimNow, frames))
WakePlaySequence == anim.pc = "sleep" /\ StoreAnim(AfterSleep(AnimNow))

AnimNext ==
    \/ \E name \in {"pose", "hand"} : ShowBefore(FrameNamed(name))
    \/ \E frames \in FrameLists \cup {<<>>} : StartPlaySequence(frames)
    \/ WakePlaySequence
AnimSpec == Init /\ [][AnimNext]_vars


\* ------------------------------------------------------------ claims on the renderer's playSequence
\* the list of the running or finished playSequence call begins with
\* min(5, length) frames of which none carries data
LeadsBlank(frames) ==
    /\ Len(frames) > 0
    /\ \A j \in 1..Min(earlyCheckFrames, Len(frames)) : frames[j] \in InvalidNames

\* C21: a playSequence call on a list whose first min(5, length) frames are
\* all invalid, unless it threw, has returned false after exactly one
\* updateFrame call, with frame 0, and no sleep; whatever the later frames are.
EarlyBlankShowsFrameZeroOnly ==
    (anim.pc \in {"sleep", "returned"} /\ LeadsBlank(anim.frames)) =>
        /\ anim.pc = "returned"
        /\ ~anim.result
        /\ anim.calls = 1
        /\ anim.sleeps = 0
        /\ lastFrame = <<FrameNamed(anim.frames[1])>>

\* five blank frames and then valid ones: returned false after one call
EarlyBlankShowsFrameZeroOnlyWitness ==
    /\ anim.pc = "returned"
    /\ Len(anim.frames) > earlyCheckFrames
    /\ LeadsBlank(anim.frames)
    /\ anim.frames[earlyCheckFrames + 1] \in ValidNames
    /\ anim.calls = 1 /\ anim.sleeps = 0 /\ ~anim.result

\* the number of invalid frames that end frames[1..k]
TrailingInvalid(frames, k) ==
    LET lastValid == {j \in 1..k : frames[j] \in ValidNames} IN
    IF lastValid = {} THEN k
    ELSE k - (CHOOSE j \in lastValid : \A m \in lastValid : m <= j)
\* V valid frames followed by ten or more invalid frames and nothing else
ValidThenBlank(frames, V) ==
    /\ V >= 1
    /\ Len(frames) - V >= maxConsecutiveBlanks
    /\ \A j \in 1..Len(frames) :
          IF j <= V THEN frames[j] \in ValidNames ELSE frames[j] \in InvalidNames

\* C22: in the frame loop the count of consecutive invalid frames is the
\* number of invalid frames shown since the last valid one, and the loop does
\* not go on once a valid frame was shown and that count has reached 10; a
\* call on V >= 1 valid frames followed by 10 or more invalid frames that has
\* returned made exactly V + 10 updateFrame calls and returned true.
StopsAfterTenBlanks ==
    (anim.pc \in {"sleep", "returned"} /\ anim.k >= 1) =>
        /\ anim.consecutiveBlankFrames = TrailingInvalid(anim.frames, anim.k)
        /\ anim.calls = anim.k
        /\ anim.pc = "sleep" =>
              ~(anim.hasValidFrames /\ anim.consecutiveBlankFrames >= maxConsecutiveBlanks)
        /\ \A V \in 1..Len(anim.frames) :
              (anim.pc = "returned" /\ ValidThenBlank(anim.frames, V)) =>
                  anim.calls = V + maxConsecutiveBlanks /\ anim.result

\* 10 valid and 15 invalid frames: returned true after 20 calls
StopsAfterTenBlanksWitness ==
    /\ anim.pc = "returned"
    /\ Len(anim.frames) = 25
    /\ ValidThenBlank(anim.frames, 10)
    /\ anim.calls = 20
    /\ anim.result

\* C23: a playSequence call with an empty list returns false in the step
\* of the call, without a sleep or an updateFrame call, and no joint or bone
\* changes its visibility.
EmptyListLeavesRig ==
    [][(anim.pc = "idle" /\ anim'.pc # "idle" /\ anim'.frames = <<>>) =>
          /\ anim'.pc = "returned"
          /\ ~anim'.result
          /\ anim'.sleeps = 0 /\ anim'.calls = 0
          /\ UNCHANGED <<joints, bones, leftHandJoints, rightHandJoints,
                         leftHandBones, rightHandBones, lastFrame, lastReturn>>]_vars

\* a pose is shown, and playSequence([]) has returned false
EmptyListLeavesRigWitness ==
    /\ anim.pc = "returned" /\ anim.frames = <<>> /\ ~anim.result
    /\ joints # {} /\ bones # {}

\* C24: no playSequence call ends by throwing, whatever frames its list
\* holds (null entries, frames with a wrong landmark count).
MalformedNeverThrown == anim.pc # "threw"

\* C25: the early check's verdict for the frame of the last updateFrame call
\* is the value that call returned, for every frame updateFrame accepts.
CheckAgreesWithUpdateFrame ==
    lastFrame # <<>> =>
        checkFrame(lastFrame[1]) = [threw |-> FALSE, value |-> lastReturn]


\* ------------------------------------------------------------ claims on the hook, continued
\* C26: for the session that holds the current id, while avatarRef.current
\* is not set: a fetch that brought frames makes the item wait for the
\* avatar, without an updateFrame call; when that wait ends and the ref is
\* still not set, no updateFrame call is made and nothing is raised: the item
\* waits out what is left of the dwell budget, or is over, and the session
\* goes on with its pause (it ends only after the last item of a sequence).
MissingRendererIsAbsorbed ==
    \A sid \in Tokens : (sid = playbackId /\ Running(sid) /\ ~avatarRef) =>
        /\ sessions[sid].pc = "fetch" =>
              \A data \in {d \in FetchResults : ExtractFrames(d) # <<>>} :
                  \A elapsed \in ElapsedSet :
                      LET w == AfterFetch(World(sid), data, elapsed) IN
                      /\ ~w.wrote /\ w.rig = rig
                      /\ w.s.pc = "avatarWait" /\ w.s.i = sessions[sid].i
                      /\ w.tok = currentToken /\ w.gif = currentGifUrl
        /\ sessions[sid].pc = "avatarWait" =>
              /\ RaiseOutcomes(sid, FetchResults) = {}
              /\ \A w \in AvatarWaitOutcomes(sid) : ~w.wrote /\ w.rig = rig
              /\ \A elapsed \in ElapsedSet :
                    Absorbed(sid, TryAnimate(World(sid), elapsed), elapsed)

\* the first of two signs waits for an avatar that is not there: the wait
\* ends in the dwell, or in the pause when the budget is used up
MissingRendererIsAbsorbedWitness ==
    /\ playbackId = 1 /\ ~avatarRef
    /\ sessions[1].mode = "seq" /\ sessions[1].pc = "avatarWait"
    /\ sessions[1].i = 1 /\ Len(sessions[1].uniquePlan) = 2
    /\ sessions[1].frames # <<>>
    /\ TryAnimate(World(1), 0).s.pc = "dwell"
    /\ TryAnimate(World(1), SIGN_DURATION).s.pc = "pause"

\* C28: playbackIdRef.current never decreases and moves by one at a time; a
\* step that starts a session (isPlaying becomes true, or a session gets its
\* locals) raises it by one and the session captures the new value, which no
\* session held before; a step that raises it otherwise is a stopPlayback; no
\* session holds a value above it, and the sessions are kept by the value they
\* captured, so one session at most holds the current value.
TokenOnlyGrows ==
    [][/\ playbackId' \in {playbackId, playbackId + 1}
       /\ (~isPlaying /\ isPlaying') => playbackId' = playbackId + 1
       /\ \A sid \in Tokens :
             (sessions[sid].pc = "none" /\ sessions'[sid].pc # "none") =>
                 sid = playbackId' /\ playbackId' = playbackId + 1
       /\ playbackId' = playbackId + 1 =>
             \/ sessions[playbackId'].pc = "none" /\ sessions'[playbackId'].pc # "none"
             \/ /\ sessions' = sessions /\ ~isPlaying'
                /\ currentToken' = Undefined /\ currentGifUrl' = Undefined
       /\ \A sid \in Tokens : sid > playbackId' => sessions'[sid].pc = "none"]_vars

\* two sessions run, the first superseded by the second
TokenOnlyGrowsWitness ==
    /\ playbackId = MaxToken
    /\ Running(1) /\ Running(MaxToken)

ReturnsWhetherMotionShown ==
    \A sid \in Tokens :
        (sid = playbackId /\ sessions[sid].pc \in {"fetch", "avatarWait", "anim"}) =>
            \A w \in TaskOutcomes(sid) :
                w.ret # "none" => (w.ret = "true" <=> w.result = "true")

\* ------------------------------------------------------------ the wire shapes
MaxWireFrames == 2
\* Bodies that carry any of the three lists together, each empty or of up
\* to MaxWireFrames frames.
WireHandFrames == {LegacyHandFrameOf("valid", Undefined), LegacyHandFrameOf("blank", "valid")}
WireBodies ==
    LET P == SeqsUpTo(PoseFrames, MaxWireFrames)
        H == SeqsUpTo(WireHandFrames, MaxWireFrames)
    IN {NullData} \cup
       {[isNull |-> FALSE, pose_frames |-> a, hand_frames |-> b, frames |-> c] :
            a \in P, b \in H, c \in P}

\* resp.json() has resolved for the request of session sid
Receive(sid, data) ==
    /\ sessions[sid].pc = "fetch"
    /\ response = <<>>
    /\ response' = <<data>>
    /\ UNCHANGED <<playbackId, isPlaying, currentToken, currentGifUrl, closures,
                   avatarRef, rig, sessions, timeVars, joints, bones,
                   leftHandJoints, rightHandJoints, leftHandBones, rightHandBones,
                   lastFrame, lastReturn, anim, raf>>
\* fetchLandmarks returns that body to playSingleSign
WireFetchReturn(sid) ==
    /\ response # <<>>
    /\ FetchReturnIn(sid, {response[1]})

WireNext ==
    \/ playbackId = 0 /\ playSequenceVia(<<SignItem(SignNameList[1], "gif")>>, FALSE)
    \/ playbackId = 0 /\ SetAvatar
    \/ \E sid \in Tokens : \E data \in WireBodies : Receive(sid, data)
    \/ \E sid \in Tokens : WireFetchReturn(sid)
    \/ \E sid \in Tokens : AvatarWaitEnd(sid)
    \/ \E sid \in Tokens : AnimWake(sid)
WireSpec == Init /\ [][WireNext]_vars

\* the canonical frames of a body
Canonical(data) ==
    IF data.isNull THEN <<>>
    ELSE IF data.pose_frames # <<>> THEN data.pose_frames
    ELSE IF data.hand_frames # <<>>
         THEN [j \in 1..Len(data.hand_frames) |->
                  HandFrameOf(data.hand_frames[j].left, data.hand_frames[j].right)]
    ELSE data.frames

\* C27: while a session waits for the avatar or plays its frames on the
\* renderer, its frames are the canonical frames of the body that arrived:
\* pose_frames as they are when not empty, else hand_frames with each
\* {left, right} turned into {left_hand, right_hand} in the same order, else
\* frames as they are; and with none of the three the session does neither,
\* and the rig is as it was.
RendererGetsCanonicalFrames ==
    \A sid \in Tokens :
        (response # <<>> /\ sessions[sid].pc \notin {"none", "fetch"}) =>
            /\ sessions[sid].pc \in {"avatarWait", "anim"} =>
                  /\ sessions[sid].frames = Canonical(response[1])
                  /\ sessions[sid].frames # <<>>
            /\ Canonical(response[1]) = <<>> =>
                  sessions[sid].pc \notin {"avatarWait", "anim"} /\ rig = "hidden"

\* a body with pose_frames, hand_frames and frames: pose_frames are played
RendererGetsCanonicalFramesWitness ==
    /\ response # <<>>
    /\ ~response[1].isNull
    /\ response[1].pose_frames # <<>>
    /\ response[1].hand_frames # <<>>
    /\ response[1].frames # <<>>
    /\ response[1].frames # response[1].pose_frames
    /\ sessions[1].pc = "anim"
    /\ sessions[1].frames = response[1].pose_frames

\* the visible joints js of a rig of n joints against the list the rig was
\* given: joint i is visible exactly when landmark i, a coordinate of three
\* components, is not (0,0,0)
JointFollowsLandmark(arg, n, js) ==
    /\ js \subseteq 0..(n - 1)
    /\ \A i \in 0..(n - 1) :
          arg.points[i + 1] # "short" => (i \in js <=> arg.points[i + 1] # "zero")

\* C31: after updateFrame returned true, joint i of every rig the frame
\* carried data for (the pose rig for a pose frame, each hand that has data
\* for a hand frame) is visible if and only if landmark i is not (0,0,0),
\* whatever the other landmarks are and whatever the frames before were.
JointIffOwnLandmark ==
    (lastFrame # <<>> /\ lastReturn) =>
        LET frame == lastFrame[1] IN
        IF IsHandFrame(frame)
        THEN /\ HasData(frame.left_hand, HandJointCount) =>
                    JointFollowsLandmark(frame.left_hand, HandJointCount, leftHandJoints)
             /\ HasData(frame.right_hand, HandJointCount) =>
                    JointFollowsLandmark(frame.right_hand, HandJointCount, rightHandJoints)
        ELSE JointFollowsLandmark(frame.pose, PoseJointCount, joints)

\* a pose frame whose landmark 13 is (0,0,0) and whose other landmarks are
\* not: joint 13 alone is hidden
JointIffOwnLandmarkWitness ==
    /\ lastFrame # <<>> /\ lastReturn
    /\ ~IsHandFrame(lastFrame[1])
    /\ lastFrame[1].pose.points[14] = "zero"
    /\ lastFrame[1].pose.points[15] = "valid"
    /\ joints = (0..(PoseJointCount - 1)) \ {13}

PoseRigVisible == joints # {} \/ bones # {}
HandRigsVisible ==
    \/ leftHandJoints # {} \/ leftHandBones # {}
    \/ rightHandJoints # {} \/ rightHandBones # {}

\* C33: in every state, from construction and after every updateFrame call
\* on pose frames, hand frames, malformed frames and null in any order, the
\* pose rig and the hand rigs are not visible together.
PoseAndHandsExclusive == ~(PoseRigVisible /\ HandRigsVisible)

\* a frame that carries a pose and a left hand, both with data, was drawn:
\* the hand is visible and the pose rig is not
PoseAndHandsExclusiveWitness ==
    /\ lastFrame # <<>> /\ lastReturn
    /\ HasData(lastFrame[1].pose, PoseJointCount)
    /\ HasData(lastFrame[1].left_hand, HandJointCount)
    /\ HandRigsVisible
    /\ ~PoseRigVisible

\* C32: when playSequence has returned for a list without null entries, it
\* returned true if and only if the list is non-empty and one at least of
\* its first min(5, length) frames has data; the frames after those, and
\* whether the loop ran to the end or stopped on a run of blank frames, make
\* no difference.
ResultFromFirstFrames ==
    (anim.pc = "returned" /\ \A j \in 1..Len(anim.frames) : anim.frames[j] # "null") =>
        (anim.result <=>
            /\ Len(anim.frames) > 0
            /\ \E j \in 1..Min(earlyCheckFrames, Len(anim.frames)) :
                  anim.frames[j] \in ValidNames)

\* the list has five blank frames and then a frame with data: playSequence
\* returned false
ResultFromFirstFramesWitness ==
    /\ anim.pc = "returned"
    /\ ~anim.result
    /\ Len(anim.frames) > earlyCheckFrames
    /\ \A j \in 1..earlyCheckFrames : anim.frames[j] \in BlankNames
    /\ anim.frames[earlyCheckFrames + 1] \in ValidNames

\* stopPlayback made the current id and playSequence has not been called
\* since: no session has that id
AfterStop == playbackId >= 1 /\ sessions[playbackId].pc = "none"

\* C34: from stopPlayback until the next call of playSequence that starts a
\* session, isPlaying is false and currentToken and currentGifUrl are
\* undefined in every state, whatever tasks of the halted sessions run
\* (fetch completion, end of dwell, pauses, end of the loop, cleanup).
StoppedStaysCleared ==
    AfterStop =>
        ~isPlaying /\ currentToken = Undefined /\ currentGifUrl = Undefined

\* a looping session was halted by stopPlayback and has since run to its
\* cleanup
StoppedStaysClearedWitness ==
    /\ AfterStop
    /\ playbackId = 2
    /\ sessions[1].mode = "loop"
    /\ sessions[1].pc = "done"

\* C37: a call of stopPlayback (the step that makes an id no session has)
\* changes playbackId, isPlaying, currentToken and currentGifUrl only: what
\* the skeleton shows, the renderer's meshes, the avatar reference, the
\* sessions' locals and their timers are as before the call.
StopLeavesRig ==
    [][(playbackId' # playbackId /\ sessions'[playbackId'].pc = "none") =>
          UNCHANGED <<rig, rigVars, avatarRef, sessions, closures, timeVars>>]_vars

\* stopPlayback was called while the skeleton showed a pose, and the pose
\* is still on show
StopLeavesRigWitness ==
    /\ AfterStop
    /\ rig = "pose"
    /\ \E sid \in Tokens : sid < playbackId /\ Running(sid)

\* C36: the uniquePlan a call of playSequence(plan) has built collapses to
\* itself, so a call with uniquePlan in place of plan schedules the same
\* items in the same mode.
CollapseIsIdempotent ==
    \A sid \in Tokens : sessions[sid].pc # "none" =>
        LET uniquePlan == sessions[sid].uniquePlan IN
        /\ Collapse(uniquePlan) = uniquePlan
        /\ sessions[sid].pc # "done" =>
              (IsSingleSign(Collapse(uniquePlan)) <=> sessions[sid].mode = "loop")

\* a plan with a repeat before a text item and the same sign after it:
\* collapsing dropped the repeat and drops nothing more
CollapseIsIdempotentWitness ==
    LET I == SignItem("I", "gif") IN
    /\ sessions[1].plan = <<I, I, TextItem, I>>
    /\ sessions[1].uniquePlan = <<I, TextItem, I>>
    /\ sessions[1].mode = "seq"

\* the task of session sid that reaches a non-sign item in the for loop,
\* after the pause that followed a sign or after another non-sign item
EntersTextPause(sid) ==
    /\ sessions[sid].pc \in {"pause", "text"}
    /\ sessions[sid].mode = "seq"
    /\ sessions'[sid].pc = "text"
    /\ sessions'[sid].i = sessions[sid].i + 1

\* C35: the step in which a session in sequential mode takes up a non-sign
\* item leaves currentToken, currentGifUrl, isPlaying, playbackId and the
\* skeleton as they were and starts no fetch: the session only waits, and no
\* other session moves.
TextItemIsPurePause ==
    [][\A sid \in Tokens : EntersTextPause(sid) =>
          /\ UNCHANGED <<currentToken, currentGifUrl, isPlaying, playbackId,
                         rig, rigVars, avatarRef>>
          /\ \A t \in Tokens : sessions'[t].pc = "fetch" => sessions[t].pc = "fetch"
          /\ sessions' = [sessions EXCEPT ![sid].pc = "text", ![sid].i = @ + 1]]_vars

\* the running session waits on a non-sign item that follows a sign it has
\* played: currentToken is still that sign's token, with no clip on show
TextItemIsPurePauseWitness ==
    \E sid \in Tokens :
        /\ sid = playbackId
        /\ sessions[sid].pc = "text"
        /\ sessions[sid].i > 1
        /\ IsPlayable(sessions[sid].uniquePlan[sessions[sid].i - 1])
        /\ currentToken = sessions[sid].uniquePlan[sessions[sid].i - 1].token
        /\ currentGifUrl = Undefined
        /\ isPlaying

\* ------------------------------------------------------------ the redraw loop
\* the redraw requests of a run
MaxRequestId == 12
\* The redraw loop beside the frame updates.  The browser runs the callback
\* of a pending request at a display refresh (the request is then no longer
\* pending); dispose() is called by the owner's effect cleanup.
AnimationFrame(id) ==
    /\ id \in raf.pending
    /\ raf.nextId <= MaxRequestId
    /\ raf' = animate([raf EXCEPT !.pending = @ \ {id}])
    /\ UNCHANGED <<playbackId, isPlaying, currentToken, currentGifUrl, closures,
                   avatarRef, rig, sessions, timeVars, joints, bones,
                   leftHandJoints, rightHandJoints, leftHandBones, rightHandBones,
                   lastFrame, lastReturn, anim, response>>
Dispose ==
    /\ raf' = dispose(raf)
    /\ UNCHANGED <<playbackId, isPlaying, currentToken, currentGifUrl, closures,
                   avatarRef, rig, sessions, timeVars, joints, bones,
                   leftHandJoints, rightHandJoints, leftHandBones, rightHandBones,
                   lastFrame, lastReturn, anim, response>>
RedrawNext ==
    \/ \E id \in 1..MaxRequestId : AnimationFrame(id)
    \/ Dispose
    \/ \E name \in ValidNames \cup InvalidNames : UpdateFrameCall(FrameNamed(name))
RedrawSpec == Init /\ [][RedrawNext]_vars

\* C38: until dispose() exactly one redraw request is pending and its id is
\* the one in animationFrameId; from dispose() on no request is pending, and
\* no step makes a request or renders again.
RedrawStopsAtDispose ==
    /\ [](IF raf.disposed THEN raf.pending = {}
                          ELSE raf.pending = {raf.animationFrameId})
    /\ [][raf.disposed => raf' = raf]_vars

\* the loop has run for some refreshes, a frame was drawn, and dispose()
\* was called: nothing is pending
RedrawStopsAtDisposeWitness ==
    /\ raf.disposed
    /\ raf.animationFrameId > 2
    /\ raf.pending = {}
    /\ lastFrame # <<>>

====
